---- MODULE Spec2Model ----
(***************************************************************************)
(* State-machine model of the Focus timer page (src/script.js): the        *)
(* Storage wrapper, the Timer object with its countdown interval and its   *)
(* settings form, the FullscreenTimer mirror and the Notes editor.  Each   *)
(* event handler is one action; the functions a handler calls are          *)
(* operators on a record that holds the whole page state, applied in the   *)
(* order of the code.                                                      *)
(***************************************************************************)
EXTENDS Integers, Sequences, FiniteSets, TLC

VARIABLES
    timeLeft,           \* Timer.timeLeft, seconds (a number or NaN)
    isRunning,          \* Timer.isRunning
    interval,           \* Timer.interval: last handle returned by setInterval, 0 for null
    currentMode,        \* Timer.currentMode
    sessionsCompleted,  \* Timer.sessionsCompleted
    totalFocusTime,     \* Timer.totalFocusTime, minutes
    settings,           \* Timer.settings
    visualSettings,     \* Timer.visualSettings
    isOpen,             \* FullscreenTimer.isOpen
    quoteInterval,      \* FullscreenTimer.quoteInterval, 0 for null
    dom,                \* the primary timer elements
    fsDom,              \* the fullscreen elements
    form,               \* values of the four inputs of the settings panel
    localStorage,       \* key -> stored text, or Absent
    timers,             \* the browser's active repeating timers: [id, kind]
    env,                \* what the page does not control
    out,                \* what the last handler emitted
    lastOp,             \* the last handler that ran
    n0,                 \* countdown run: timeLeft when the run began
    tickCount,          \* countdown run: interval callbacks fired
    completeCount,      \* countdown run: complete() calls
    written,            \* Storage alone: key -> what the last set() or foreign write left
    got,                \* Storage alone: the last get(), its arguments and its result
    notes,              \* Notes.notes: the note objects in the list, by reference
    noteObjs,           \* every note object created so far: reference -> fields
    currentNote,        \* Notes.currentNote: a reference, 0 for null
    autoSaveTimeout,    \* Notes.autoSaveTimeout: last handle of setTimeout, 0 for null
    notesDom,           \* the editor modal and the note cards
    storedNotes,        \* the value under the key 'notes': copies of the notes saved
    tasks,              \* Tasks.tasks
    tasksDom,           \* #task-input and the rendered task items
    storedTasks,        \* the value under the key 'tasks': a copy of the list saved
    now                 \* Date.now()

vars == <<timeLeft, isRunning, interval, currentMode, sessionsCompleted,
          totalFocusTime, settings, visualSettings, isOpen, quoteInterval,
          dom, fsDom, form, localStorage, timers, env, out, lastOp,
          n0, tickCount, completeCount, written, got,
          notes, noteObjs, currentNote, autoSaveTimeout, notesDom, storedNotes,
          tasks, tasksDom, storedTasks, now>>

\* what the Timer's and the FullscreenTimer's handlers never touch
storageVars == <<written, got>>

runVars == <<n0, tickCount, completeCount, storageVars, now>>

-----------------------------------------------------------------------------
(* Bounds of the model *)

\* largest number of minutes typed into a settings field or the time prompt
MaxMinutes == 2
\* largest value typed into the sessions-before-long-break field
MaxSessionsBeforeLong == 2
\* interval callbacks a behaviour of the Timer runs before the clock stops
MaxTicks == 3
\* the same for the behaviours of the whole page
MaxPageTicks == 2
\* timer handles the browser hands out at any one time
MaxHandles == 3
\* seconds left on the countdown that was paused before the behaviour begins
SecondsLeftAtResume == 2
\* longest paused countdown a single run starts from, in seconds
MaxCountdown == 30
\* work sessions after which the run of whole cycles starts no countdown
MaxCycleSessions == 8
MaxNotes == 2
MaxNow == 2
MaxTasks == 3

-----------------------------------------------------------------------------
(* JavaScript numbers: the integers the page computes with, and NaN *)

NaN == -1000000

IsNaN(a) == a = NaN

JsMul(a, b) == IF IsNaN(a) \/ IsNaN(b) THEN NaN ELSE a * b

JsAdd(a, b) == IF IsNaN(a) \/ IsNaN(b) THEN NaN ELSE a + b

JsSub(a, b) == IF IsNaN(a) \/ IsNaN(b) THEN NaN ELSE a - b

\* a < b, false when either side is NaN
JsLt(a, b) == ~IsNaN(a) /\ ~IsNaN(b) /\ a < b

JsLe(a, b) == ~IsNaN(a) /\ ~IsNaN(b) /\ a <= b

JsGe(a, b) == ~IsNaN(a) /\ ~IsNaN(b) /\ a >= b

\* Math.floor(a / b) for b > 0
JsFloorDiv(a, b) == IF IsNaN(a) THEN NaN ELSE a \div b

\* a % b: the remainder takes the sign of the dividend; NaN when b is 0
JsRem(a, b) ==
    IF IsNaN(a) \/ IsNaN(b) \/ b = 0 THEN NaN
    ELSE LET m == IF b < 0 THEN 0 - b ELSE b
         IN  IF a >= 0 THEN a % m ELSE 0 - ((0 - a) % m)

\* String(a)
JsString(a) == IF IsNaN(a) THEN "NaN" ELSE ToString(a)

\* String(a).padStart(2, '0')
PadStart2(str) == IF Len(str) < 2 THEN "0" \o str ELSE str

-----------------------------------------------------------------------------
(* Text typed by the user: a sequence of one-character strings *)

DigitChars == {"0", "1", "2", "3", "4", "5", "6", "7", "8", "9"}

DigitValue(c) ==
    CASE c = "0" -> 0 [] c = "1" -> 1 [] c = "2" -> 2 [] c = "3" -> 3
      [] c = "4" -> 4 [] c = "5" -> 5 [] c = "6" -> 6 [] c = "7" -> 7
      [] c = "8" -> 8 [] c = "9" -> 9

DigitChar(d) ==
    CASE d = 0 -> "0" [] d = 1 -> "1" [] d = 2 -> "2" [] d = 3 -> "3"
      [] d = 4 -> "4" [] d = 5 -> "5" [] d = 6 -> "6" [] d = 7 -> "7"
      [] d = 8 -> "8" [] d = 9 -> "9"

RECURSIVE NatToChars(_)
NatToChars(n) ==
    IF n < 10 THEN <<DigitChar(n)>>
    ELSE Append(NatToChars(n \div 10), DigitChar(n % 10))

\* the text an input shows after `.value = a`
NumberToChars(a) ==
    IF IsNaN(a) THEN <<"N", "a", "N">>
    ELSE IF a < 0 THEN <<"-">> \o NatToChars(0 - a)
    ELSE NatToChars(a)

RECURSIVE SkipSpaces(_)
SkipSpaces(cs) ==
    IF cs # <<>> /\ Head(cs) = " " THEN SkipSpaces(Tail(cs)) ELSE cs

RECURSIVE DigitPrefix(_)
DigitPrefix(cs) ==
    IF cs # <<>> /\ Head(cs) \in DigitChars
    THEN <<Head(cs)>> \o DigitPrefix(Tail(cs))
    ELSE <<>>

RECURSIVE DigitsValue(_, _)
DigitsValue(ds, acc) ==
    IF ds = <<>> THEN acc
    ELSE DigitsValue(Tail(ds), acc * 10 + DigitValue(Head(ds)))

HasSign(cs) == cs # <<>> /\ Head(cs) \in {"+", "-"}

Unsigned(cs) == IF HasSign(cs) THEN Tail(cs) ELSE cs

\* parseInt(text): leading blanks, a sign, then the longest run of digits
parseInt(cs) ==
    LET t  == SkipSpaces(cs)
        ds == DigitPrefix(Unsigned(t))
    IN  IF ds = <<>> THEN NaN
        ELSE IF HasSign(t) /\ Head(t) = "-" THEN 0 - DigitsValue(ds, 0)
        ELSE DigitsValue(ds, 0)

\* The prompt's answer as editTime tests it, `!isNaN(text) && text > 0`: the
\* text converts to a number (blank text to 0; otherwise a sign, digits and
\* an optional fraction, nothing else) and that number is positive.
IsPositiveNumberText(cs) ==
    LET t    == SkipSpaces(cs)
        u    == Unsigned(t)
        int  == DigitPrefix(u)
        rest == SubSeq(u, Len(int) + 1, Len(u))
        frac == IF rest # <<>> /\ Head(rest) = "." THEN DigitPrefix(Tail(rest)) ELSE <<>>
        end  == IF rest # <<>> /\ Head(rest) = "."
                THEN SubSeq(rest, Len(frac) + 2, Len(rest)) ELSE rest
    IN  /\ int \o frac # <<>>
        /\ SkipSpaces(end) = <<>>
        /\ ~(HasSign(t) /\ Head(t) = "-")
        /\ \E i \in 1..Len(int \o frac) : (int \o frac)[i] # "0"

-----------------------------------------------------------------------------
(* JSON text in localStorage *)

\* what JSON.parse returns for the text "null"
Null == -1000001

\* JSON.stringify(value) for the numbers the page stores: NaN becomes null
JSONStringify(v) == IF IsNaN(v) THEN <<"n", "u", "l", "l">> ELSE NumberToChars(v)

\* the text is one JSON integer literal
IsJSONInteger(cs) ==
    LET u == IF cs # <<>> /\ Head(cs) = "-" THEN Tail(cs) ELSE cs
    IN  /\ u # <<>>
        /\ DigitPrefix(u) = u
        /\ (Len(u) > 1 => Head(u) # "0")

JSONParses(cs) == cs = <<"n", "u", "l", "l">> \/ IsJSONInteger(cs)

\* JSON.parse(text), for a text that parses
JSONParse(cs) ==
    IF cs = <<"n", "u", "l", "l">> THEN Null
    ELSE IF Head(cs) = "-" THEN 0 - DigitsValue(Tail(cs), 0)
    ELSE DigitsValue(cs, 0)

\* Storage.get(key, defaultValue) on a store
StorageGet(store, key, defaultValue) ==
    IF key \in DOMAIN store /\ store[key] # <<>>
    THEN IF JSONParses(store[key]) THEN JSONParse(store[key]) ELSE defaultValue
    ELSE defaultValue

\* set() without its try block: the exception of setItem leaves the handler
StorageSetThrowing(s, key, value) ==
    IF s.env.writable
    THEN [s EXCEPT !.localStorage = (key :> JSONStringify(value)) @@ @]
    ELSE [s EXCEPT !.out.threw = TRUE]

\* Storage.set(key, value): setItem throws while the store refuses writes,
\* and the catch block logs the error
StorageSet(s, key, value) ==
    IF s.env.writable
    THEN [s EXCEPT !.localStorage = (key :> JSONStringify(value)) @@ @]
    ELSE [s EXCEPT !.out.writeErrors = TRUE]

-----------------------------------------------------------------------------
(* JSON text of the other values the page stores: booleans, strings, null
   and lists of these.  A value is a record tagged with its JavaScript type. *)

JNumber(n)  == [type |-> "number",  n |-> n, b |-> FALSE, s |-> <<>>, a |-> <<>>]
JBoolean(b) == [type |-> "boolean", n |-> 0, b |-> b,     s |-> <<>>, a |-> <<>>]
JString(s)  == [type |-> "string",  n |-> 0, b |-> FALSE, s |-> s,    a |-> <<>>]
JArray(a)   == [type |-> "array",   n |-> 0, b |-> FALSE, s |-> <<>>, a |-> a]
JNull       == [type |-> "null",    n |-> 0, b |-> FALSE, s |-> <<>>, a |-> <<>>]

\* the characters of a string between its quotes: " and \ get a backslash
RECURSIVE Escaped(_)
Escaped(cs) ==
    IF cs = <<>> THEN <<>>
    ELSE IF Head(cs) \in {"\"", "\\"} THEN <<"\\", Head(cs)>> \o Escaped(Tail(cs))
    ELSE <<Head(cs)>> \o Escaped(Tail(cs))

\* JSON.stringify of a value that is not a list
StringifyScalar(j) ==
    CASE j.type = "number"  -> JSONStringify(j.n)
      [] j.type = "boolean" -> IF j.b THEN <<"t", "r", "u", "e">>
                                      ELSE <<"f", "a", "l", "s", "e">>
      [] j.type = "string"  -> <<"\"">> \o Escaped(j.s) \o <<"\"">>
      [] j.type = "null"    -> <<"n", "u", "l", "l">>

RECURSIVE StringifyItems(_)
StringifyItems(a) ==
    IF a = <<>> THEN <<>>
    ELSE IF Len(a) = 1 THEN StringifyScalar(a[1])
    ELSE StringifyScalar(Head(a)) \o <<",">> \o StringifyItems(Tail(a))

\* JSON.stringify(value)
JSONStringifyValue(j) ==
    IF j.type = "array" THEN <<"[">> \o StringifyItems(j.a) \o <<"]">>
    ELSE StringifyScalar(j)

IsPrefix(p, cs) == Len(p) <= Len(cs) /\ SubSeq(cs, 1, Len(p)) = p

Drop(n, cs) == SubSeq(cs, n + 1, Len(cs))

NoParse == [ok |-> FALSE, value |-> JNull, rest |-> <<>>]

Parsed(j, rest) == [ok |-> TRUE, value |-> j, rest |-> rest]

\* the characters of a string literal after its opening quote
RECURSIVE ScanString(_, _)
ScanString(cs, acc) ==
    IF cs = <<>> THEN NoParse
    ELSE IF Head(cs) = "\"" THEN Parsed(JString(acc), Tail(cs))
    ELSE IF Head(cs) = "\\"
         THEN IF Len(cs) >= 2 /\ cs[2] \in {"\"", "\\"}
              THEN ScanString(Drop(2, cs), Append(acc, cs[2]))
              ELSE NoParse
    ELSE ScanString(Tail(cs), Append(acc, Head(cs)))

\* one JSON value that is not a list, at the head of the text: a literal, an
\* integer or a string
ParseScalar(cs) ==
    LET u  == IF cs # <<>> /\ Head(cs) = "-" THEN Tail(cs) ELSE cs
        ds == DigitPrefix(u)
        n  == (IF cs # <<>> /\ Head(cs) = "-" THEN <<"-">> ELSE <<>>) \o ds
    IN  IF IsPrefix(<<"n", "u", "l", "l">>, cs) THEN Parsed(JNull, Drop(4, cs))
        ELSE IF IsPrefix(<<"t", "r", "u", "e">>, cs) THEN Parsed(JBoolean(TRUE), Drop(4, cs))
        ELSE IF IsPrefix(<<"f", "a", "l", "s", "e">>, cs) THEN Parsed(JBoolean(FALSE), Drop(5, cs))
        ELSE IF cs # <<>> /\ Head(cs) = "\"" THEN ScanString(Tail(cs), <<>>)
        ELSE IF IsJSONInteger(n) THEN Parsed(JNumber(JSONParse(n)), Drop(Len(n), cs))
        ELSE NoParse

\* the items of a list after its opening bracket or after a comma
RECURSIVE ParseItems(_, _)
ParseItems(cs, acc) ==
    LET item == ParseScalar(cs)
    IN  IF ~item.ok \/ item.rest = <<>> THEN NoParse
        ELSE IF Head(item.rest) = "]"
             THEN Parsed(JArray(Append(acc, item.value)), Tail(item.rest))
        ELSE IF Head(item.rest) = ","
             THEN ParseItems(Tail(item.rest), Append(acc, item.value))
        ELSE NoParse

\* JSON.parse(text): the value, or a SyntaxError (ok = FALSE)
JSONParseValue(cs) ==
    LET r == IF IsPrefix(<<"[", "]">>, cs) THEN Parsed(JArray(<<>>), Drop(2, cs))
             ELSE IF cs # <<>> /\ Head(cs) = "[" THEN ParseItems(Tail(cs), <<>>)
             ELSE ParseScalar(cs)
    IN  IF r.ok /\ r.rest = <<>> THEN r ELSE NoParse

\* the value converts to false
Falsy(j) ==
    \/ j.type = "null"
    \/ j.type = "number" /\ j.n = 0
    \/ j.type = "boolean" /\ ~j.b
    \/ j.type = "string" /\ j.s = <<>>

\* get() that tests the parsed value where it should test the stored text:
\* `JSON.parse(item) || defaultValue`
StorageGetValueOrDefault(store, key, defaultValue) ==
    IF key \in DOMAIN store /\ JSONParseValue(store[key]).ok
       /\ ~Falsy(JSONParseValue(store[key]).value)
    THEN JSONParseValue(store[key]).value
    ELSE defaultValue

\* Storage.get(key, defaultValue): getItem gives null for an absent key, the
\* empty text is falsy too, and a SyntaxError of JSON.parse is caught
StorageGetValue(store, key, defaultValue) ==
    IF key \in DOMAIN store /\ store[key] # <<>>
    THEN IF JSONParseValue(store[key]).ok
         THEN JSONParseValue(store[key]).value
         ELSE defaultValue
    ELSE defaultValue

\* Storage.set(key, value) for any value
StorageSetValue(s, key, j) ==
    IF s.env.writable
    THEN [s EXCEPT !.localStorage = (key :> JSONStringifyValue(j)) @@ @]
    ELSE [s EXCEPT !.out.writeErrors = TRUE]

-----------------------------------------------------------------------------
(* Timer: display *)

Modes == {"work", "short-break", "long-break"}

\* Timer.getCurrentModeDuration
getCurrentModeDurationWorkOnly(s) == s.settings.workDuration

getCurrentModeDuration(s) ==
    CASE s.currentMode = "work"        -> s.settings.workDuration
      [] s.currentMode = "short-break" -> s.settings.breakDuration
      [] s.currentMode = "long-break"  -> s.settings.longBreakDuration

\* the MM:SS text of updateDisplay
TimeString(t) ==
    PadStart2(JsString(JsFloorDiv(t, 60))) \o ":" \o PadStart2(JsString(JsRem(t, 60)))

ModeLabel(mode) ==
    CASE mode = "work"        -> "Work Session"
      [] mode = "short-break" -> "Short Break"
      [] mode = "long-break"  -> "Long Break"

\* the threshold classes both updateProgress functions put on an indicator
BandClasses(t) ==
    (IF JsLt(t, 300) /\ JsGe(t, 60) THEN {"low-time"} ELSE {})
    \cup (IF JsLt(t, 60) THEN {"critical-time"} ELSE {})

\* FullscreenTimer.updateProgress
fsUpdateProgress(s) ==
    [s EXCEPT !.fsDom.ringClasses = BandClasses(s.timeLeft),
              !.fsDom.fillClasses = BandClasses(s.timeLeft),
              !.fsDom.critical    = JsLt(s.timeLeft, 60)]

Circular == <<"c", "i", "r", "c", "u", "l", "a", "r">>
Linear   == <<"l", "i", "n", "e", "a", "r">>
Normal   == <<"n", "o", "r", "m", "a", "l">>
Subtle   == <<"s", "u", "b", "t", "l", "e">>

\* the text setAttribute stores for a value that is not a list: String(value)
AttrText(j) == IF j.type = "string" THEN j.s ELSE StringifyScalar(j)

\* the primary container's data-style, copied to the fullscreen content
copyStyle(s) ==
    [s EXCEPT !.fsDom.dataStyle =
                  IF s.dom.dataStyle = <<>> THEN Circular ELSE s.dom.dataStyle]

\* FullscreenTimer.syncFromMainTimer
syncFromMainTimer(s) ==
    LET s1 == copyStyle([s EXCEPT !.fsDom.time  = s.dom.timerTime,
                                  !.fsDom.label = s.dom.timerLabel])
        s2 == fsUpdateProgress(s1)
    IN  [s2 EXCEPT !.fsDom.startDisabled = s.isRunning,
                   !.fsDom.pauseDisabled = ~s.isRunning]

\* FullscreenTimer.updateFromMainTimer
updateFromMainTimer(s) == IF s.isOpen THEN syncFromMainTimer(s) ELSE s

\* Timer.updateDisplay, with updateTimerSize
updateDisplay(s) ==
    LET timeString == TimeString(s.timeLeft)
        s1 == [s EXCEPT !.dom.timerTime  = timeString,
                        !.dom.timerLabel = ModeLabel(s.currentMode),
                        !.dom.largeTimer = Len(timeString) >= 6,
                        !.out.rendered   = Append(@, timeString)]
    IN  updateFromMainTimer(s1)


\* updateProgress, lines 409-411 and 1027-1029: (elapsed / totalTime) * 100
\* lies in [0, 100]; a totalTime of 0 gives NaN or an infinity
PercentageInRange(timeLeft_, totalTime) ==
    LET elapsed == JsSub(totalTime, timeLeft_)
    IN  /\ ~IsNaN(elapsed)
        /\ totalTime # 0
        /\ IF totalTime > 0
           THEN 0 <= elapsed /\ elapsed <= totalTime
           ELSE totalTime <= elapsed /\ elapsed <= 0

\* Timer.updateProgress
updateProgress(s) ==
    [s EXCEPT !.dom.ringClasses = BandClasses(s.timeLeft),
              !.dom.fillClasses = BandClasses(s.timeLeft),
              !.dom.critical    = JsLt(s.timeLeft, 60) /\ s.isRunning]

-----------------------------------------------------------------------------
(* Timer: the countdown *)

\* start() without its first line
startUnguarded(s, h) ==
    [s EXCEPT !.isRunning         = TRUE,
              !.dom.startDisabled = TRUE,
              !.dom.pauseDisabled = FALSE,
              !.dom.running       = TRUE,
              !.interval          = h,
              !.timers            = @ \cup {[id |-> h, kind |-> "countdown"]}]

\* Timer.start; h is the handle setInterval returns
start(s, h) ==
    IF s.isRunning THEN s
    ELSE [s EXCEPT !.isRunning         = TRUE,
                   !.dom.startDisabled = TRUE,
                   !.dom.pauseDisabled = FALSE,
                   !.dom.running       = TRUE,
                   !.interval          = h,
                   !.timers            = @ \cup {[id |-> h, kind |-> "countdown"]}]


\* pause() that clears every interval of the page
pauseEveryTimer(s) ==
    [s EXCEPT !.isRunning         = FALSE,
              !.timers            = {},
              !.dom.startDisabled = FALSE,
              !.dom.pauseDisabled = TRUE,
              !.dom.running       = FALSE]

\* Timer.pause; clearInterval drops the timer whose handle Timer.interval holds
pause(s) ==
    [s EXCEPT !.isRunning         = FALSE,
              !.timers            = {t \in @ : t.id # s.interval},
              !.dom.startDisabled = FALSE,
              !.dom.pauseDisabled = TRUE,
              !.dom.running       = FALSE]

\* Timer.reset
reset(s) ==
    LET s1 == pause(s)
        s2 == [s1 EXCEPT !.timeLeft = JsMul(getCurrentModeDuration(s1), 60)]
        s3 == updateProgress(updateDisplay(s2))
    IN  [s3 EXCEPT !.dom.critical = FALSE]

\* showNotification that does not look at Notification.permission
showNotificationUnasked(s) ==
    [s EXCEPT !.out.permissionSeen = s.env.permission,
              !.out.notification =
                  IF s.currentMode = "work" THEN "Time to focus!" ELSE "Take a break!"]

\* Timer.showNotification
showNotification(s) ==
    IF s.env.permission = "granted"
    THEN [s EXCEPT !.out.permissionSeen = s.env.permission,
                   !.out.notification =
                       IF s.currentMode = "work" THEN "Time to focus!" ELSE "Take a break!"]
    ELSE [s EXCEPT !.out.permissionSeen = s.env.permission]

\* Timer.updateStats
updateStats(s) ==
    [s EXCEPT !.dom.sessionsCompleted = JsString(s.sessionsCompleted)]

\* the long break one session late: the count taken before the increment
NextBreakBeforeIncrement(completed, sessionsBeforeLong) ==
    IF JsRem(completed - 1, sessionsBeforeLong) = 0 THEN "long-break" ELSE "short-break"

\* the long break from the threshold on instead of at its multiples
NextBreakFromThreshold(completed, sessionsBeforeLong) ==
    IF JsGe(completed, sessionsBeforeLong) THEN "long-break" ELSE "short-break"

\* complete(), lines 343-347: the mode a finished work session leads to
NextBreak(completed, sessionsBeforeLong) ==
    IF JsRem(completed, sessionsBeforeLong) = 0 THEN "long-break" ELSE "short-break"

\* the counters advanced whatever the mode that ended
finishSessionCountingBreaks(s) ==
    LET a == [s EXCEPT !.sessionsCompleted = JsAdd(@, 1),
                       !.totalFocusTime    = JsAdd(@, s.settings.workDuration)]
        b == StorageSet(a, "sessionsCompleted", a.sessionsCompleted)
        c == StorageSet(b, "totalFocusTime", b.totalFocusTime)
        d == updateStats(c)
    IN  IF s.currentMode = "work"
        THEN [d EXCEPT !.currentMode =
                 NextBreak(d.sessionsCompleted, d.settings.sessionsBeforeLong)]
        ELSE [d EXCEPT !.currentMode = "work"]

\* complete(), lines 335-350: count a finished work session, store the
\* counters, and switch the mode
finishSession(s) ==
    IF s.currentMode = "work"
    THEN LET a == [s EXCEPT !.sessionsCompleted = JsAdd(@, 1),
                            !.totalFocusTime    = JsAdd(@, s.settings.workDuration)]
             b == StorageSet(a, "sessionsCompleted", a.sessionsCompleted)
             c == StorageSet(b, "totalFocusTime", b.totalFocusTime)
             d == updateStats(c)
         IN  [d EXCEPT !.currentMode =
                 NextBreak(d.sessionsCompleted, d.settings.sessionsBeforeLong)]
    ELSE [s EXCEPT !.currentMode = "work"]

\* complete(), lines 352-357: the new mode's full time, shown, and the
\* notification
showNextMode(s) ==
    LET s1 == [s EXCEPT !.timeLeft = JsMul(getCurrentModeDuration(s), 60)]
    IN  showNotification(updateProgress(updateDisplay(s1)))

\* Timer.playSound: play() is called, and the promise it returns is
\* rejected when the browser refuses the playback; the catch callback logs
playSound(s) ==
    [s EXCEPT !.out.sound = TRUE,
              !.out.playbackLogged = (s.env.playback = "rejected")]

\* complete() that leaves the countdown running
completeWithoutPause(s) ==
    showNextMode(finishSession(playSound(s)))

\* complete() that goes on to the next mode in the `then` of play()
completeAfterPlayback(s) ==
    LET s1 == playSound(pause(s))
    IN  IF s.env.playback = "rejected" THEN s1 ELSE showNextMode(finishSession(s1))

\* Timer.complete
complete(s) ==
    showNextMode(finishSession(playSound(pause(s))))

\* the callback with `<` for `<=`
tickStrict(s) ==
    LET s1 == [s EXCEPT !.timeLeft = JsSub(@, 1)]
        s2 == updateProgress(updateDisplay(s1))
    IN  IF JsLt(s2.timeLeft, 0) THEN complete(s2) ELSE s2

\* the callback Timer.start hands to setInterval
tick(s) ==
    LET s1 == [s EXCEPT !.timeLeft = JsSub(@, 1)]
        s2 == updateProgress(updateDisplay(s1))
    IN  IF JsLe(s2.timeLeft, 0) THEN complete(s2) ELSE s2

\* Timer.setCustomTime
setCustomTime(s, minutes) ==
    updateProgress(updateDisplay([s EXCEPT !.timeLeft = JsMul(minutes, 60)]))

\* the prompt of editTime was cancelled
Cancelled == <<"cancel">>

\* Timer.editTime, behind the click handler's `if (!this.isRunning)`
editTime(s, answer) ==
    IF s.isRunning THEN s
    ELSE IF answer # Cancelled /\ IsPositiveNumberText(answer)
         THEN setCustomTime(s, parseInt(answer))
         ELSE s


\* the preset handler without its `if (!this.isRunning)`
presetClickUnguarded(s, duration) == setCustomTime(s, parseInt(duration))

\* a preset button's click handler
presetClick(s, duration) ==
    IF s.isRunning THEN s ELSE setCustomTime(s, parseInt(duration))

\* Timer.applyVisualSettings
applyVisualSettings(s) ==
    [s EXCEPT !.dom.dataStyle       = AttrText(s.visualSettings.style),
              !.dom.dataIntensity   = AttrText(s.visualSettings.animationIntensity),
              !.dom.styleSelect     = AttrText(s.visualSettings.style),
              !.dom.intensitySelect = AttrText(s.visualSettings.animationIntensity)]

\* the change handler of #timer-style
styleChange(s, value) ==
    LET s1 == [s EXCEPT !.visualSettings.style = JString(value)]
    IN  applyVisualSettings(StorageSetValue(s1, "timerStyle", JString(value)))

\* the change handler of #animation-intensity
intensityChange(s, value) ==
    LET s1 == [s EXCEPT !.visualSettings.animationIntensity = JString(value)]
    IN  applyVisualSettings(StorageSetValue(s1, "animationIntensity", JString(value)))

\* saveSettings without its closing reset()
saveSettingsWithoutReset(s, f) ==
    LET s1 == [s EXCEPT !.form = f,
                        !.settings = [workDuration       |-> parseInt(f.workDuration),
                                      breakDuration      |-> parseInt(f.breakDuration),
                                      longBreakDuration  |-> parseInt(f.longBreakDuration),
                                      sessionsBeforeLong |-> parseInt(f.sessionsBeforeLong)]]
        s2 == StorageSet(s1, "workDuration", s1.settings.workDuration)
        s3 == StorageSet(s2, "breakDuration", s2.settings.breakDuration)
        s4 == StorageSet(s3, "longBreakDuration", s3.settings.longBreakDuration)
    IN  StorageSet(s4, "sessionsBeforeLong", s4.settings.sessionsBeforeLong)

\* Timer.saveSettings, reading the four inputs
saveSettings(s, f) ==
    LET s1 == [s EXCEPT !.form = f,
                        !.settings = [workDuration       |-> parseInt(f.workDuration),
                                      breakDuration      |-> parseInt(f.breakDuration),
                                      longBreakDuration  |-> parseInt(f.longBreakDuration),
                                      sessionsBeforeLong |-> parseInt(f.sessionsBeforeLong)]]
        s2 == StorageSet(s1, "workDuration", s1.settings.workDuration)
        s3 == StorageSet(s2, "breakDuration", s2.settings.breakDuration)
        s4 == StorageSet(s3, "longBreakDuration", s3.settings.longBreakDuration)
        s5 == StorageSet(s4, "sessionsBeforeLong", s4.settings.sessionsBeforeLong)
    IN  reset(s5)

-----------------------------------------------------------------------------
(* FullscreenTimer *)

\* open() that pauses the Timer before it shows the overlay
openPausing(s, h) ==
    LET p  == pause(s)
        s1 == copyStyle([p EXCEPT !.isOpen = TRUE, !.fsDom.hidden = FALSE])
    IN  IF ~s.env.fullscreenTimeElDefined
        THEN [s1 EXCEPT !.out.threw = TRUE]
        ELSE LET s2 == syncFromMainTimer(s1)
             IN  [s2 EXCEPT !.quoteInterval = h,
                            !.timers = @ \cup {[id |-> h, kind |-> "quote"]}]

\* FullscreenTimer.open; the statement at line 967 reads the global
\* fullscreenTimeEl, which no line of the script defines: open() goes on
\* only on a page that defines it
open(s, h) ==
    LET s1 == copyStyle([s EXCEPT !.isOpen = TRUE, !.fsDom.hidden = FALSE])
    IN  IF ~s.env.fullscreenTimeElDefined
        THEN [s1 EXCEPT !.out.threw = TRUE]
        ELSE LET s2 == syncFromMainTimer(s1)
                 s3 == [s2 EXCEPT !.quoteInterval = h,
                                  !.timers = @ \cup {[id |-> h, kind |-> "quote"]}]
             IN  IF s3.isRunning THEN [s3 EXCEPT !.fsDom.running = TRUE] ELSE s3


\* close() that clears Timer.interval where it should clear quoteInterval
closeClearingCountdown(s) ==
    LET s1 == [s EXCEPT !.isOpen = FALSE, !.fsDom.hidden = TRUE]
    IN  [s1 EXCEPT !.timers = {t \in @ : t.id # s1.interval},
                   !.quoteInterval = 0]

\* FullscreenTimer.close
close(s) ==
    LET s1 == [s EXCEPT !.isOpen = FALSE, !.fsDom.hidden = TRUE]
    IN  IF s1.quoteInterval # 0
        THEN [s1 EXCEPT !.timers = {t \in @ : t.id # s1.quoteInterval},
                        !.quoteInterval = 0]
        ELSE s1

\* FullscreenTimer.startTimer
startTimer(s, h) ==
    [syncFromMainTimer(start(s, h)) EXCEPT !.fsDom.running = TRUE]

\* FullscreenTimer.pauseTimer
pauseTimer(s) ==
    [syncFromMainTimer(pause(s)) EXCEPT !.fsDom.running = FALSE]

-----------------------------------------------------------------------------
(* Notes.  A note object is known by its reference, its index in noteObjs:
   Notes.notes and Notes.currentNote hold references, and an object that
   left the list is still there for whoever holds it. *)

Untitled == <<"U", "n", "t", "i", "t", "l", "e", "d">>

RECURSIVE TrimEnd(_)
TrimEnd(cs) ==
    IF cs # <<>> /\ cs[Len(cs)] = " " THEN TrimEnd(SubSeq(cs, 1, Len(cs) - 1)) ELSE cs

\* text.trim()
Trim(cs) == TrimEnd(SkipSpaces(cs))

\* notes.filter(n => n.id !== id)
WithoutId(s, id) ==
    LET Keep(r) == s.noteObjs[r].id # id
    IN  SelectSeq(s.notes, Keep)

\* notes.find(n => n.id === id): the first one, 0 when there is none
FindNote(s, id) ==
    IF \E i \in 1..Len(s.notes) : s.noteObjs[s.notes[i]].id = id
    THEN s.notes[CHOOSE i \in 1..Len(s.notes) :
                    /\ s.noteObjs[s.notes[i]].id = id
                    /\ \A j \in 1..(i - 1) : s.noteObjs[s.notes[j]].id # id]
    ELSE 0

\* the comparator of render(): pinned notes first, then the later updatedAt
SortsBefore(a, b) ==
    \/ a.pinned /\ ~b.pinned
    \/ a.pinned = b.pinned /\ a.updatedAt > b.updatedAt

RECURSIVE InsertSorted(_, _, _)
InsertSorted(objs, sorted, r) ==
    IF sorted = <<>> THEN <<r>>
    ELSE IF SortsBefore(objs[r], objs[Head(sorted)]) THEN <<r>> \o sorted
    ELSE <<Head(sorted)>> \o InsertSorted(objs, Tail(sorted), r)

\* [...notes].sort(comparator); the sort is stable
RECURSIVE SortedNotes(_, _)
SortedNotes(objs, refs) ==
    IF refs = <<>> THEN <<>>
    ELSE InsertSorted(objs, SortedNotes(objs, SubSeq(refs, 1, Len(refs) - 1)),
                      refs[Len(refs)])

\* Notes.render: one card per note, each with the note's id
render(s) ==
    LET sorted == SortedNotes(s.noteObjs, s.notes)
    IN  [s EXCEPT !.notesDom.cards = [i \in 1..Len(sorted) |-> s.noteObjs[sorted[i]].id]]

\* Notes.save: Storage.set('notes', notes); JSON.stringify copies the fields
\* every note of the list has at this moment. `from` is the object a copy was
\* made of; it is not part of the stored text
notesSave(s) ==
    IF s.env.writable
    THEN [s EXCEPT !.storedNotes =
                       [i \in 1..Len(s.notes) |->
                           [from |-> s.notes[i], note |-> s.noteObjs[s.notes[i]]]]]
    ELSE [s EXCEPT !.out.writeErrors = TRUE]

\* Notes.openEditor, with updateTimestamp
openEditor(s, ref) ==
    [s EXCEPT !.currentNote = ref,
              !.notesDom.title = s.noteObjs[ref].title,
              !.notesDom.content = s.noteObjs[ref].content,
              !.notesDom.timestamp = s.noteObjs[ref].updatedAt,
              !.notesDom.shows = ref,
              !.notesDom.hidden = FALSE]

\* Notes.createNote
createNote(s, time) ==
    LET note == [id |-> time, title |-> <<>>, content |-> <<>>, pinned |-> FALSE,
                 createdAt |-> time, updatedAt |-> time]
        ref  == Len(s.noteObjs) + 1
        s1   == [s EXCEPT !.noteObjs = Append(@, note), !.notes = Append(@, ref)]
    IN  openEditor(s1, ref)

\* Notes.saveCurrentNote, with updateTimestamp
saveCurrentNote(s, time) ==
    IF s.currentNote = 0 THEN s
    ELSE [s EXCEPT !.noteObjs[s.currentNote].title =
                       IF Trim(s.notesDom.title) = <<>> THEN Untitled
                       ELSE Trim(s.notesDom.title),
                   !.noteObjs[s.currentNote].content = s.notesDom.content,
                   !.noteObjs[s.currentNote].updatedAt = time,
                   !.notesDom.timestamp = time]

\* Notes.closeEditor
closeEditor(s, time) ==
    LET s1 == saveCurrentNote(s, time)
        cur == s1.noteObjs[s1.currentNote]
        s2 == IF s.currentNote = 0 THEN s
              ELSE IF cur.title = <<>> /\ cur.content = <<>>
                   THEN [s1 EXCEPT !.notes = WithoutId(s1, cur.id)]
                   ELSE s1
        s3 == [s2 EXCEPT !.notesDom.hidden = TRUE, !.currentNote = 0]
    IN  render(notesSave(s3))

\* scheduleAutoSave without its clearTimeout
scheduleAutoSaveKeeping(s, h) ==
    [s EXCEPT !.timers = @ \cup {[id |-> h, kind |-> "autosave"]},
              !.autoSaveTimeout = h]

\* Notes.scheduleAutoSave
scheduleAutoSave(s, h) ==
    [s EXCEPT !.timers = {t \in @ : t.id # s.autoSaveTimeout}
                             \cup {[id |-> h, kind |-> "autosave"]},
              !.autoSaveTimeout = h]

\* the callback scheduleAutoSave hands to setTimeout; h is the timeout that fires
autoSave(s, h, time) ==
    notesSave(saveCurrentNote([s EXCEPT !.timers = {t \in @ : t.id # h}], time))

\* deleteCurrentNote that drops the list filter() returns
deleteCurrentNoteUnassigned(s, confirmed, time) ==
    IF s.currentNote = 0 \/ ~confirmed THEN s
    ELSE closeEditor(s, time)

\* Notes.deleteCurrentNote, and the answer to confirm()
deleteCurrentNote(s, confirmed, time) ==
    IF s.currentNote = 0 \/ ~confirmed THEN s
    ELSE closeEditor([s EXCEPT !.notes = WithoutId(s, s.noteObjs[s.currentNote].id)], time)

\* Notes.togglePin
togglePin(s, id) ==
    LET ref == FindNote(s, id)
    IN  IF ref = 0 THEN s
        ELSE render(notesSave([s EXCEPT !.noteObjs[ref].pinned = ~@]))

\* click on a note card: the handler render() attached
cardClick(s, id) ==
    LET ref == FindNote(s, id)
    IN  IF ref = 0 THEN s ELSE openEditor(s, ref)

\* input in #note-title
titleInput(s, text, h) == scheduleAutoSave([s EXCEPT !.notesDom.title = text], h)

\* input in #note-content
contentInput(s, text, h) == scheduleAutoSave([s EXCEPT !.notesDom.content = text], h)

-----------------------------------------------------------------------------
(* Tasks.  Nothing but Tasks.tasks holds a task object, so the list is kept
   by value. *)

\* Tasks.save: Storage.set('tasks', tasks); JSON.stringify copies the list
tasksSave(s) ==
    IF s.env.writable
    THEN [s EXCEPT !.storedTasks = s.tasks]
    ELSE [s EXCEPT !.out.writeErrors = TRUE]

\* Tasks.render: one item per task, in the order of the list, each with the
\* task's id in data-id
tasksRender(s) ==
    [s EXCEPT !.tasksDom.items =
                  [i \in 1..Len(s.tasks) |->
                      [id |-> s.tasks[i].id, completed |-> s.tasks[i].completed]]]

\* Tasks.addTask
addTask(s, time) ==
    LET text == Trim(s.tasksDom.input)
        task == [id |-> time, text |-> text, completed |-> FALSE, createdAt |-> time]
    IN  IF text = <<>> THEN s
        ELSE [tasksRender(tasksSave([s EXCEPT !.tasks = Append(@, task)]))
                 EXCEPT !.tasksDom.input = <<>>]

\* Tasks.toggleTask: find() gives the first task with the id
toggleTask(s, id) ==
    IF \E i \in 1..Len(s.tasks) : s.tasks[i].id = id
    THEN LET first == CHOOSE i \in 1..Len(s.tasks) :
                          /\ s.tasks[i].id = id
                          /\ \A j \in 1..(i - 1) : s.tasks[j].id # id
         IN  tasksRender(tasksSave([s EXCEPT !.tasks[first].completed = ~@]))
    ELSE s

\* Tasks.deleteTask
deleteTask(s, id) ==
    LET Keep(t) == t.id # id
    IN  tasksRender(tasksSave([s EXCEPT !.tasks = SelectSeq(@, Keep)]))

-----------------------------------------------------------------------------
(* The page state as one record, and back *)

Permissions == {"granted", "denied", "default"}

NoOutput ==
    [sound |-> FALSE, playbackLogged |-> FALSE, notification |-> "",
     permissionSeen |-> "", writeErrors |-> FALSE, rendered |-> <<>>,
     threw |-> FALSE, confirmed |-> FALSE, clicked |-> 0]

\* the state a handler starts from: the store accepts writes or not, and
\* Notification.permission reads as `permission`, while the handler runs
State(writable, permission) ==
    [timeLeft |-> timeLeft, isRunning |-> isRunning, interval |-> interval,
     currentMode |-> currentMode, sessionsCompleted |-> sessionsCompleted,
     totalFocusTime |-> totalFocusTime, settings |-> settings,
     visualSettings |-> visualSettings, isOpen |-> isOpen, quoteInterval |-> quoteInterval,
     dom |-> dom, fsDom |-> fsDom, form |-> form,
     localStorage |-> localStorage, timers |-> timers,
     notes |-> notes, noteObjs |-> noteObjs, currentNote |-> currentNote,
     autoSaveTimeout |-> autoSaveTimeout, notesDom |-> notesDom,
     storedNotes |-> storedNotes,
     tasks |-> tasks, tasksDom |-> tasksDom, storedTasks |-> storedTasks,
     env |-> [writable |-> writable, permission |-> permission,
              playback |-> "plays",
              fullscreenTimeElDefined |-> env.fullscreenTimeElDefined],
     out |-> NoOutput]

Here == State(TRUE, "default")

Install(s, op) ==
    /\ timeLeft' = s.timeLeft
    /\ isRunning' = s.isRunning
    /\ interval' = s.interval
    /\ currentMode' = s.currentMode
    /\ sessionsCompleted' = s.sessionsCompleted
    /\ totalFocusTime' = s.totalFocusTime
    /\ settings' = s.settings
    /\ visualSettings' = s.visualSettings
    /\ isOpen' = s.isOpen
    /\ quoteInterval' = s.quoteInterval
    /\ dom' = s.dom
    /\ fsDom' = s.fsDom
    /\ form' = s.form
    /\ localStorage' = s.localStorage
    /\ timers' = s.timers
    /\ notes' = s.notes
    /\ noteObjs' = s.noteObjs
    /\ currentNote' = s.currentNote
    /\ autoSaveTimeout' = s.autoSaveTimeout
    /\ notesDom' = s.notesDom
    /\ storedNotes' = s.storedNotes
    /\ tasks' = s.tasks
    /\ tasksDom' = s.tasksDom
    /\ storedTasks' = s.storedTasks
    /\ env' = env
    /\ out' = s.out
    /\ lastOp' = op

\* setInterval never returns a handle it has returned before. The model
\* hands out the smallest handle that no live timer has and no other field
\* of the page still holds; the field being assigned loses its old value.
LiveHandles == {t.id : t \in timers}

FreeFor(others) == (1..MaxHandles) \ (LiveHandles \cup others)

NewHandle(others) == CHOOSE h \in FreeFor(others) : \A g \in FreeFor(others) : h <= g

-----------------------------------------------------------------------------
(* Start-up *)

DefaultWorkDuration == 25
DefaultBreakDuration == 5
DefaultLongBreakDuration == 15
DefaultSessionsBeforeLong == 4

EmptyStore == [k \in {} |-> <<>>]

\* what an earlier visit left behind: settings saved, one session done
SavedStore ==
    [k \in {"workDuration", "breakDuration", "longBreakDuration",
            "sessionsBeforeLong", "sessionsCompleted", "totalFocusTime"} |->
        CASE k = "workDuration"       -> <<"2">>
          [] k = "breakDuration"      -> <<"1">>
          [] k = "longBreakDuration"  -> <<"3">>
          [] k = "sessionsBeforeLong" -> <<"2">>
          [] k = "sessionsCompleted"  -> <<"1">>
          [] k = "totalFocusTime"     -> <<"2">>]

\* the Timer object literal, then Timer.init: updateDisplay, updateStats,
\* loadSettings
Loaded(store, elDefined) ==
    LET st == [workDuration       |-> StorageGet(store, "workDuration", DefaultWorkDuration),
               breakDuration      |-> StorageGet(store, "breakDuration", DefaultBreakDuration),
               longBreakDuration  |-> StorageGet(store, "longBreakDuration", DefaultLongBreakDuration),
               sessionsBeforeLong |-> StorageGet(store, "sessionsBeforeLong", DefaultSessionsBeforeLong)]
        s0 == [timeLeft |-> JsMul(st.workDuration, 60),
               isRunning |-> FALSE, interval |-> 0, currentMode |-> "work",
               sessionsCompleted |-> StorageGet(store, "sessionsCompleted", 0),
               totalFocusTime |-> StorageGet(store, "totalFocusTime", 0),
               settings |-> st,
               visualSettings |->
                   [style |-> StorageGetValue(store, "timerStyle", JString(Circular)),
                    animationIntensity |->
                        StorageGetValue(store, "animationIntensity", JString(Normal))],
               isOpen |-> FALSE, quoteInterval |-> 0,
               dom |-> [timerTime |-> "", timerLabel |-> "", largeTimer |-> FALSE,
                        startDisabled |-> FALSE, pauseDisabled |-> FALSE,
                        running |-> FALSE, critical |-> FALSE,
                        ringClasses |-> {}, fillClasses |-> {},
                        sessionsCompleted |-> "",
                        dataStyle |-> <<>>, dataIntensity |-> <<>>,
                        styleSelect |-> <<>>, intensitySelect |-> <<>>],
               fsDom |-> [hidden |-> TRUE, time |-> "", label |-> "",
                          startDisabled |-> FALSE, pauseDisabled |-> FALSE,
                          running |-> FALSE, critical |-> FALSE,
                          ringClasses |-> {}, fillClasses |-> {},
                          dataStyle |-> <<>>],
               form |-> [workDuration |-> <<>>, breakDuration |-> <<>>,
                         longBreakDuration |-> <<>>, sessionsBeforeLong |-> <<>>],
               localStorage |-> store, timers |-> {},
               notes |-> <<>>, noteObjs |-> <<>>, currentNote |-> 0,
               autoSaveTimeout |-> 0,
               notesDom |-> [hidden |-> TRUE, title |-> <<>>, content |-> <<>>,
                             timestamp |-> 0, shows |-> 0, cards |-> <<>>],
               storedNotes |-> <<>>,
               tasks |-> <<>>, tasksDom |-> [input |-> <<>>, items |-> <<>>],
               storedTasks |-> <<>>,
               env |-> [writable |-> TRUE, permission |-> "default",
                        playback |-> "plays",
                        fullscreenTimeElDefined |-> elDefined],
               out |-> NoOutput]
        s1 == updateStats(updateDisplay(s0))
        s2 == [s1 EXCEPT !.form = [workDuration       |-> NumberToChars(st.workDuration),
                                   breakDuration      |-> NumberToChars(st.breakDuration),
                                   longBreakDuration  |-> NumberToChars(st.longBreakDuration),
                                   sessionsBeforeLong |-> NumberToChars(st.sessionsBeforeLong)]]
    IN  applyVisualSettings(s2)

\* the page after start(), ticks down to `left` seconds, and pause(): a tick
\* that does not complete the countdown leaves nothing behind but timeLeft
\* and what the next tick renders again, so the last of the ticks is run on
\* the started page with one second more on the clock
PausedAt(store, elDefined, left) ==
    LET s0 == Loaded(store, elDefined)
        s1 == start(s0, 1)
        s2 == tick([s1 EXCEPT !.timeLeft = left + 1])
    IN  pause([s2 EXCEPT !.out = NoOutput])

Starts(stores) ==
    {[state |-> Loaded(store, el), op |-> "init"] : store \in stores, el \in BOOLEAN}
    \cup {[state |-> PausedAt(store, el, SecondsLeftAtResume), op |-> "pause"] :
             store \in stores, el \in BOOLEAN}

\* a key of the store holds what an earlier visit left, what a set() of this
\* visit wrote, or a text that something else than set() put there
Earlier == [by |-> "earlier", value |-> JNull]

\* no get() yet
NoGet == [key |-> "", defaultValue |-> JNull, value |-> JNull]

InitFrom(starts) ==
    \E x \in starts :
        LET s == x.state
        IN  /\ timeLeft = s.timeLeft
            /\ isRunning = s.isRunning
            /\ interval = s.interval
            /\ currentMode = s.currentMode
            /\ sessionsCompleted = s.sessionsCompleted
            /\ totalFocusTime = s.totalFocusTime
            /\ settings = s.settings
            /\ visualSettings = s.visualSettings
            /\ isOpen = s.isOpen
            /\ quoteInterval = s.quoteInterval
            /\ dom = s.dom
            /\ fsDom = s.fsDom
            /\ form = s.form
            /\ localStorage = s.localStorage
            /\ timers = s.timers
            /\ notes = s.notes
            /\ noteObjs = s.noteObjs
            /\ currentNote = s.currentNote
            /\ autoSaveTimeout = s.autoSaveTimeout
            /\ notesDom = s.notesDom
            /\ storedNotes = s.storedNotes
            /\ tasks = s.tasks
            /\ tasksDom = s.tasksDom
            /\ storedTasks = s.storedTasks
            /\ now = 1
            /\ env = [fullscreenTimeElDefined |-> s.env.fullscreenTimeElDefined]
            /\ out = s.out
            /\ lastOp = x.op
            /\ tickCount = 0
            /\ completeCount = 0
            /\ written = [k \in DOMAIN s.localStorage |-> Earlier]
            /\ got = NoGet

Init ==
    /\ InitFrom(Starts({SavedStore}))
    /\ n0 = 0

-----------------------------------------------------------------------------
(* What the user types *)

MinuteTexts == {NumberToChars(n) : n \in 1..MaxMinutes}

InvalidTexts == {<<"a", "b", "c">>, <<"0">>, <<"-", "5">>}

\* the time prompt: cancelled, whole minutes, a fraction of a minute, or
\* something that is not a positive number
PromptAnswers ==
    {Cancelled, <<"0", ".", "5">>} \cup MinuteTexts \cup InvalidTexts

\* data-duration of the preset buttons
PresetDurations == MinuteTexts

Fields == {"workDuration", "breakDuration", "longBreakDuration", "sessionsBeforeLong"}

\* valid settings, the break as long as the work session is short
ValidForms ==
    {[workDuration       |-> NumberToChars(m),
      breakDuration      |-> NumberToChars(MaxMinutes + 1 - m),
      longBreakDuration  |-> NumberToChars(MaxMinutes),
      sessionsBeforeLong |-> NumberToChars(k)] :
        m \in 1..MaxMinutes, k \in MaxSessionsBeforeLong - 1..MaxSessionsBeforeLong}

\* one field of a valid form replaced by text that is not a positive integer
InvalidForms ==
    LET base == [workDuration |-> <<"1">>, breakDuration |-> <<"2">>,
                 longBreakDuration |-> <<"2">>, sessionsBeforeLong |-> <<"2">>]
    IN  {[base EXCEPT ![f] = x] : f \in Fields, x \in InvalidTexts}

SettingsForms == ValidForms \cup InvalidForms

-----------------------------------------------------------------------------
(* The handlers *)

\* click on #timer-start
Start ==
    /\ isRunning \/ FreeFor({quoteInterval}) # {}
    /\ Install(start(Here, NewHandle({quoteInterval})), "start")

\* click on #timer-pause
Pause == Install(pause(Here), "pause")

\* click on #timer-reset
Reset == Install(reset(Here), "reset")

\* the countdown interval fires
Tick(writables, permissions) ==
    /\ \E t \in timers : t.kind = "countdown"
    /\ \E writable \in writables, permission \in permissions :
          Install(tick(State(writable, permission)), "tick")

\* the same, on a page where the browser plays the sound or refuses to
Playbacks == {"plays", "rejected"}

TickPlaying(playbacks) ==
    /\ \E t \in timers : t.kind = "countdown"
    /\ \E playback \in playbacks :
          Install(tick([Here EXCEPT !.env.playback = playback]), "tick")

\* click on #timer-time and the answer to the prompt
EditTime(answers) ==
    \E answer \in answers : Install(editTime(Here, answer), "editTime")

\* click on a preset button
PresetClick(durations) ==
    \E d \in durations : Install(presetClick(Here, d), "preset")

\* the fields are filled in and #save-settings is clicked
SaveSettings(forms, writables) ==
    \E f \in forms, writable \in writables :
        Install(saveSettings(State(writable, "default"), f), "saveSettings")

\* click on #timer-fullscreen, or double click on the time
Open ==
    /\ FreeFor({interval}) # {}
    /\ Install(open(Here, NewHandle({interval})), "open")

\* click on #close-fullscreen, Escape, or click on the backdrop
Close == Install(close(Here), "close")

\* click on #fullscreen-start
FsStart ==
    /\ isRunning \/ FreeFor({quoteInterval}) # {}
    /\ Install(startTimer(Here, NewHandle({quoteInterval})), "fsStart")

\* click on #fullscreen-pause
FsPause == Install(pauseTimer(Here), "fsPause")

\* the quote interval fires: showRandomQuote touches the quote element only
QuoteRotate ==
    /\ \E t \in timers : t.kind = "quote"
    /\ Install(Here, "quote")

\* another option of #timer-style is chosen
StyleChange(values, writables) ==
    \E v \in values, writable \in writables :
        Install(styleChange(State(writable, "default"), v), "styleChange")

\* another option of #animation-intensity is chosen
IntensityChange(values, writables) ==
    \E v \in values, writable \in writables :
        Install(intensityChange(State(writable, "default"), v), "intensityChange")

\* the clock of the model: ticks are counted, and stop at the cap
Clock(cap) ==
    /\ tickCount < cap
    /\ tickCount' = tickCount + 1
    /\ UNCHANGED <<n0, completeCount, storageVars, now>>

\* the Timer's own handlers: every form, and a store that may refuse the
\* writes of complete()
Next ==
    \/ Start /\ UNCHANGED runVars
    \/ Pause /\ UNCHANGED runVars
    \/ Reset /\ UNCHANGED runVars
    \/ Tick(BOOLEAN, Permissions) /\ Clock(MaxTicks)
    \/ EditTime(PromptAnswers) /\ UNCHANGED runVars
    \/ PresetClick(PresetDurations) /\ UNCHANGED runVars
    \/ SaveSettings(SettingsForms, {TRUE}) /\ UNCHANGED runVars

Spec == Init /\ [][Next]_vars

\* what is typed in the behaviours of the whole page
PageForms ==
    {[workDuration |-> <<"1">>, breakDuration |-> <<"2">>,
      longBreakDuration |-> <<"2">>, sessionsBeforeLong |-> <<"2">>],
     [workDuration |-> <<"2">>, breakDuration |-> <<"1">>,
      longBreakDuration |-> <<"2">>, sessionsBeforeLong |-> <<"1">>],
     [workDuration |-> <<"-", "5">>, breakDuration |-> <<"2">>,
      longBreakDuration |-> <<"2">>, sessionsBeforeLong |-> <<"2">>]}

PageAnswers == {Cancelled, <<"0", ".", "5">>, <<"1">>}

PagePresets == {<<"1">>}

\* every handler of the Timer and of the FullscreenTimer
NextPage ==
    \/ Start /\ UNCHANGED runVars
    \/ Pause /\ UNCHANGED runVars
    \/ Reset /\ UNCHANGED runVars
    \/ Tick({TRUE}, {"granted", "denied"}) /\ Clock(MaxPageTicks)
    \/ EditTime(PageAnswers) /\ UNCHANGED runVars
    \/ PresetClick(PagePresets) /\ UNCHANGED runVars
    \/ SaveSettings(PageForms, {TRUE}) /\ UNCHANGED runVars
    \/ Open /\ UNCHANGED runVars
    \/ Close /\ UNCHANGED runVars
    \/ FsStart /\ UNCHANGED runVars
    \/ FsPause /\ UNCHANGED runVars
    \/ QuoteRotate /\ UNCHANGED runVars

SpecPage == Init /\ [][NextPage]_vars


\* the Timer's handlers with valid input only: whole minutes at the prompt
\* and positive integers in every settings field
ValidAnswers == {Cancelled} \cup MinuteTexts

NextValid ==
    \/ Start /\ UNCHANGED runVars
    \/ Pause /\ UNCHANGED runVars
    \/ Reset /\ UNCHANGED runVars
    \/ Tick({TRUE}, {"default"}) /\ Clock(MaxTicks)
    \/ EditTime(ValidAnswers) /\ UNCHANGED runVars
    \/ PresetClick(PresetDurations) /\ UNCHANGED runVars
    \/ SaveSettings(ValidForms, {TRUE}) /\ UNCHANGED runVars

SpecValid == Init /\ [][NextValid]_vars

\* every operation that could touch the settings: the Timer's handlers with
\* valid input, the two dropdowns of the settings panel, and the overlay
SettingsAnswers == {<<"1">>}

NextSettings ==
    \/ Start /\ UNCHANGED runVars
    \/ Pause /\ UNCHANGED runVars
    \/ Reset /\ UNCHANGED runVars
    \/ Tick({TRUE}, {"default"}) /\ Clock(MaxPageTicks)
    \/ EditTime(SettingsAnswers) /\ UNCHANGED runVars
    \/ SaveSettings(ValidForms, {TRUE}) /\ UNCHANGED runVars
    \/ StyleChange({Linear}, {TRUE}) /\ UNCHANGED runVars
    \/ IntensityChange({Subtle}, {TRUE}) /\ UNCHANGED runVars
    \/ Open /\ UNCHANGED runVars
    \/ Close /\ UNCHANGED runVars

\* the saved page, paused a few seconds before the end of a work session
InitSettings ==
    /\ InitFrom({[state |-> PausedAt(SavedStore, TRUE, SecondsLeftAtResume),
                  op |-> "pause"]})
    /\ n0 = 0

SpecSettings == InitSettings /\ [][NextSettings]_vars

\* countdowns whose completion sound plays or is refused
NextSound ==
    \/ Start /\ UNCHANGED runVars
    \/ Pause /\ UNCHANGED runVars
    \/ Reset /\ UNCHANGED runVars
    \/ TickPlaying(Playbacks) /\ Clock(MaxTicks)
    \/ EditTime(PageAnswers) /\ UNCHANGED runVars

SpecSound == Init /\ [][NextSound]_vars

-----------------------------------------------------------------------------
(* The Storage wrapper alone: set(), get(), and texts that set() did not write *)

StorageKeys == {"timerStyle", "sessionsCompleted"}

\* values handed to set(): the falsy ones, strings with characters that
\* JSON escapes, and lists
StorageValues ==
    {JNumber(0), JNumber(0 - 1), JBoolean(FALSE), JString(<<>>), JString(Linear), JString(<<"\"", "\\">>), JNull,
     JArray(<<>>), JArray(<<JNumber(0), JString(<<>>), JBoolean(FALSE)>>)}

StorageDefaults == {JNull, JNumber(DefaultWorkDuration), JString(Circular)}

\* texts JSON.parse rejects, and the empty text
CorruptTexts ==
    {<<>>, <<"{">>, <<"a", "b", "c">>, <<"\"", "a">>, <<"[", "1", ",">>,
     <<"u", "n", "d", "e", "f", "i", "n", "e", "d">>}

\* Storage.set(key, value), on a store that takes the write or refuses it
StoreSet(keys, values) ==
    \E k \in keys, v \in values, writable \in BOOLEAN :
        /\ Install(StorageSetValue(State(writable, "default"), k, v), "set")
        /\ written' = IF writable THEN (k :> [by |-> "set", value |-> v]) @@ written
                                  ELSE written
        /\ UNCHANGED <<n0, tickCount, completeCount, got, now>>

\* something else than set() puts a text under the key
ForeignWrite(keys, texts) ==
    \E k \in keys, t \in texts :
        /\ Install([Here EXCEPT !.localStorage = (k :> t) @@ @], "foreign")
        /\ written' = (k :> [by |-> "foreign", value |-> JNull]) @@ written
        /\ UNCHANGED <<n0, tickCount, completeCount, got, now>>

\* Storage.get(key, defaultValue)
StoreGet(keys, defaults) ==
    \E k \in keys, d \in defaults :
        /\ Install(Here, "get")
        /\ got' = [key |-> k, defaultValue |-> d,
                   value |-> StorageGetValue(localStorage, k, d)]
        /\ UNCHANGED <<n0, tickCount, completeCount, written, now>>

InitStorage ==
    /\ InitFrom({[state |-> Loaded(EmptyStore, TRUE), op |-> "init"]})
    /\ n0 = 0

NextStorage ==
    \/ StoreSet(StorageKeys, StorageValues)
    \/ ForeignWrite(StorageKeys, CorruptTexts)
    \/ StoreGet(StorageKeys, StorageDefaults)

SpecStorage == InitStorage /\ [][NextStorage]_vars

\* every handler of the Timer that writes to the store, on a store that
\* takes the writes or refuses them
NextWrites ==
    \/ Start /\ UNCHANGED runVars
    \/ Pause /\ UNCHANGED runVars
    \/ Tick(BOOLEAN, {"default"}) /\ Clock(MaxTicks)
    \/ SaveSettings(ValidForms, BOOLEAN) /\ UNCHANGED runVars
    \/ StyleChange({Circular, Linear}, BOOLEAN) /\ UNCHANGED runVars
    \/ IntensityChange({Subtle}, BOOLEAN) /\ UNCHANGED runVars

SpecWrites == InitSettings /\ [][NextWrites]_vars

-----------------------------------------------------------------------------
(* The Notes handlers *)

\* what is typed into the title and into the content of a note
TitleTexts == {<<" ">>, <<"a">>}

ContentTexts == {<<"x">>}

\* click on #new-note-btn
CreateNote ==
    /\ Len(noteObjs) < MaxNotes
    /\ Install(createNote(Here, now), "createNote")

\* click on #close-note-editor or on the modal's background
CloseEditor == Install(closeEditor(Here, now), "closeEditor")

\* typing in the title of the open editor
TitleInput(texts) ==
    /\ ~notesDom.hidden
    /\ FreeFor({interval, quoteInterval}) # {}
    /\ \E text \in texts :
          Install(titleInput(Here, text, NewHandle({interval, quoteInterval})), "titleInput")

\* typing in the content of the open editor
ContentInput(texts) ==
    /\ ~notesDom.hidden
    /\ FreeFor({interval, quoteInterval}) # {}
    /\ \E text \in texts :
          Install(contentInput(Here, text, NewHandle({interval, quoteInterval})),
                  "contentInput")

\* a pending auto-save timeout fires
AutoSaveFires ==
    \E t \in timers :
        /\ t.kind = "autosave"
        /\ Install(autoSave(Here, t.id, now), "autoSave")

\* click on #delete-note-btn, and the answer to the confirm dialog
DeleteNote ==
    \E confirmed \in BOOLEAN :
        Install([deleteCurrentNote(Here, confirmed, now) EXCEPT !.out.confirmed = confirmed],
                "deleteNote")

\* click on the pin of a card
TogglePin ==
    \E i \in DOMAIN notesDom.cards :
        Install(togglePin(Here, notesDom.cards[i]), "togglePin")

\* click on a card
CardClick ==
    \E i \in DOMAIN notesDom.cards :
        Install(cardClick(Here, notesDom.cards[i]), "cardClick")

\* a millisecond passes
Elapse ==
    /\ now < MaxNow
    /\ Install(Here, "elapse")
    /\ now' = now + 1
    /\ UNCHANGED <<n0, tickCount, completeCount, storageVars>>

InitNotes ==
    /\ InitFrom({[state |-> Loaded(EmptyStore, TRUE), op |-> "init"]})
    /\ n0 = 0

NextNotes ==
    \/ CreateNote /\ UNCHANGED runVars
    \/ CloseEditor /\ UNCHANGED runVars
    \/ TitleInput(TitleTexts) /\ UNCHANGED runVars
    \/ ContentInput(ContentTexts) /\ UNCHANGED runVars
    \/ AutoSaveFires /\ UNCHANGED runVars
    \/ DeleteNote /\ UNCHANGED runVars
    \/ TogglePin /\ UNCHANGED runVars
    \/ CardClick /\ UNCHANGED runVars
    \/ Elapse

SpecNotes == InitNotes /\ [][NextNotes]_vars

-----------------------------------------------------------------------------
(* The Tasks handlers *)

\* what is typed into #task-input
TaskTexts == {<<" ">>, <<"a">>, <<" ", "b">>}

\* text is typed, then #add-task-btn is clicked or Enter is pressed
AddTask(texts) ==
    /\ Len(tasks) < MaxTasks
    /\ \E text \in texts :
          Install(addTask([Here EXCEPT !.tasksDom.input = text], now), "addTask")

\* click on the i-th task item: the handler render() attached, with the id
\* it read from data-id
ToggleClick ==
    \E i \in DOMAIN tasksDom.items :
        Install([toggleTask(Here, tasksDom.items[i].id) EXCEPT !.out.clicked = i],
                "toggleTask")

\* click on the delete button of the i-th task item
DeleteClick ==
    \E i \in DOMAIN tasksDom.items :
        Install([deleteTask(Here, tasksDom.items[i].id) EXCEPT !.out.clicked = i],
                "deleteTask")

NextTasks ==
    \/ AddTask(TaskTexts) /\ UNCHANGED runVars
    \/ ToggleClick /\ UNCHANGED runVars
    \/ DeleteClick /\ UNCHANGED runVars
    \/ Elapse

SpecTasks == InitNotes /\ [][NextTasks]_vars

-----------------------------------------------------------------------------
(* One countdown from a paused timer, nothing else interleaved *)

\* a fresh install, and the saved page paused with 1..MaxCountdown seconds left
RunStarts ==
    {[state |-> Loaded(EmptyStore, TRUE), op |-> "init"]}
    \cup {[state |-> PausedAt(SavedStore, TRUE, n), op |-> "pause"] : n \in 1..MaxCountdown}

InitRun ==
    /\ InitFrom(RunStarts)
    /\ n0 = timeLeft

RunStart ==
    /\ completeCount = 0
    /\ Start
    /\ UNCHANGED runVars

RunTick ==
    /\ Tick({TRUE}, {"default"})
    /\ tickCount' = tickCount + 1
    /\ completeCount' = completeCount + (IF out'.sound THEN 1 ELSE 0)
    /\ UNCHANGED <<n0, storageVars, now>>

NextRun == RunStart \/ RunTick

\* the callback of a live countdown interval is called: in NextRun a step
\* that advances tickCount is a RunTick step
TickFires ==
    /\ \E t \in timers : t.kind = "countdown"
    /\ tickCount' = tickCount + 1

\* setInterval keeps calling back while the interval is not cleared
SpecRun == InitRun /\ [][NextRun]_vars /\ WF_tickCount(TickFires)

-----------------------------------------------------------------------------
(* Whole work/break cycles from a fresh install *)

InitCycle ==
    /\ InitFrom({[state |-> Loaded(EmptyStore, TRUE), op |-> "init"]})
    /\ n0 = 0

CycleAnswers == {<<"0", ".", "5">>, <<"1">>}

NextCycle ==
    \/ sessionsCompleted < MaxCycleSessions /\ Start /\ UNCHANGED runVars
    \/ Pause /\ UNCHANGED runVars
    \/ Reset /\ UNCHANGED runVars
    \/ Tick({TRUE}, {"default"}) /\ UNCHANGED runVars
    \/ EditTime(CycleAnswers) /\ UNCHANGED runVars

SpecCycle == InitCycle /\ [][NextCycle]_vars

-----------------------------------------------------------------------------
(* What the claims speak of *)

\* the active countdown tick sources
CountdownTimers == {t \in timers : t.kind = "countdown"}

\* complete() ran in the last handler
Completed == lastOp = "tick" /\ out.sound

\* the configured duration of a mode, in minutes
ConfiguredDuration(mode, st) ==
    CASE mode = "work"        -> st.workDuration
      [] mode = "short-break" -> st.breakDuration
      [] mode = "long-break"  -> st.longBreakDuration

\* the times the inputs of the model can make negative
NegativeTimes == (0 - 5 * 60 - 1)..(0 - 1)

\* the value Storage.get reads back for a key, Null when it is absent
Persisted(store, key) == StorageGet(store, key, Null)

\* a field's text is a positive integer: digits only, not all of them 0
IsPositiveIntegerText(cs) ==
    /\ cs # <<>>
    /\ \A i \in 1..Len(cs) : cs[i] \in DigitChars
    /\ \E i \in 1..Len(cs) : cs[i] # "0"

SettingsKeys == {"workDuration", "breakDuration", "longBreakDuration", "sessionsBeforeLong"}

-----------------------------------------------------------------------------
(* The claims *)

\* C1: at most one countdown tick source is active, one is active exactly
\* when isRunning is true, and it is the one Timer.interval holds; so a
\* start() while running adds none, and pause() and reset() cancel the one
\* there is before a later start() creates the next.
C1_OneTickSource ==
    /\ Cardinality(CountdownTimers) <= 1
    /\ isRunning <=> CountdownTimers # {}
    /\ \A t \in CountdownTimers : t.id = interval

\* C1 witness: the countdown runs again, started after ticks and a pause
C1_Witness ==
    /\ lastOp = "start"
    /\ isRunning
    /\ tickCount > 0
    /\ Cardinality(CountdownTimers) = 1

\* C2: timeLeft is never negative and no handler renders a negative time.
C2_NeverNegative ==
    /\ IsNaN(timeLeft) \/ timeLeft >= 0
    /\ \A i \in DOMAIN out.rendered :
          \A t \in NegativeTimes : out.rendered[i] # TimeString(t)

C4_CountedOnlyOnWorkCompletion ==
    [][(sessionsCompleted' # sessionsCompleted \/ totalFocusTime' # totalFocusTime)
         => /\ out'.sound /\ lastOp' = "tick"
            /\ currentMode = "work"
            /\ sessionsCompleted' = sessionsCompleted + 1]_vars

\* C4 witness: a break has completed after a work session was counted
C4_Witness ==
    /\ Completed
    /\ currentMode = "work"
    /\ sessionsCompleted = 2
    /\ tickCount >= 2

\* C5: complete() in work mode adds one to sessionsCompleted and
\* workDuration to totalFocusTime, and when the store took the writes the
\* two stored values read back equal to the values in memory.
C5_WorkCompletionCountedAndStored ==
    [][(out'.sound /\ lastOp' = "tick" /\ currentMode = "work")
         => /\ sessionsCompleted' = sessionsCompleted + 1
            /\ totalFocusTime' = JsAdd(totalFocusTime, settings.workDuration)
            /\ ~out'.writeErrors =>
                 /\ Persisted(localStorage', "sessionsCompleted") = sessionsCompleted'
                 /\ Persisted(localStorage', "totalFocusTime") = totalFocusTime']_vars

\* C6: after complete() the timer is paused in the new mode with that
\* mode's full time, no tick source is active, and while the timer is
\* paused timeLeft changes only by reset(), setCustomTime() or
\* saveSettings().
C6_PausedAfterComplete ==
    /\ [](Completed =>
            /\ ~isRunning
            /\ CountdownTimers = {}
            /\ timeLeft = JsMul(ConfiguredDuration(currentMode, settings), 60))
    /\ [][(~isRunning /\ timeLeft' # timeLeft)
            => lastOp' \in {"reset", "editTime", "preset", "saveSettings"}]_vars

\* C6 witness: a work session has just completed into a short break
C6_Witness ==
    /\ Completed
    /\ currentMode = "short-break"
    /\ ~isRunning
    /\ timeLeft = 60 * settings.breakDuration

\* C7: from a paused timer with n > 0 seconds left, start() and then ticks
\* alone lead to complete() firing, exactly once, on the n-th tick and on
\* no earlier one, and no tick fires after it.
C7_CompletesOnceOnNthTick ==
    /\ [](completeCount <= 1)
    /\ [](tickCount <= n0)
    /\ [](completeCount = 1 <=> (tickCount = n0 /\ lastOp = "tick"))
    /\ [](completeCount = 1 => ~isRunning /\ CountdownTimers = {})
    /\ [](isRunning => <>(completeCount = 1))

\* C7 witness: the countdown of a fresh install completed on its last second
C7_Witness ==
    /\ n0 = DefaultWorkDuration * 60
    /\ tickCount = n0
    /\ completeCount = 1
    /\ Completed

\* C8: with sessionsBeforeLong at 4 and sessionsCompleted counted from 0,
\* the k-th completion of a work session enters long-break when k is a
\* multiple of 4 and short-break otherwise, and the completion of a break
\* returns to work without counting.
C8_LongBreakEveryFourth ==
    /\ [](settings.sessionsBeforeLong = 4)
    /\ [](currentMode = "long-break" => sessionsCompleted > 0 /\ sessionsCompleted % 4 = 0)
    /\ [](currentMode = "short-break" => sessionsCompleted % 4 # 0)
    /\ [][(out'.sound /\ lastOp' = "tick")
            => IF currentMode = "work"
               THEN /\ sessionsCompleted' = sessionsCompleted + 1
                    /\ currentMode' = IF sessionsCompleted' % 4 = 0
                                      THEN "long-break" ELSE "short-break"
               ELSE /\ currentMode' = "work"
                    /\ sessionsCompleted' = sessionsCompleted]_vars

\* C8 witness: the eighth work session completed into the second long break
C8_Witness ==
    /\ Completed
    /\ currentMode = "long-break"
    /\ sessionsCompleted = 8

\* C9: saveSettings with a field that is not a positive integer changes
\* neither the settings, nor the store, nor timeLeft, nor isRunning.
C9_InvalidSettingsRejected ==
    [][(lastOp' = "saveSettings" /\ \E f \in SettingsKeys : ~IsPositiveIntegerText(form'[f]))
         => UNCHANGED <<settings, localStorage, timeLeft, isRunning>>]_vars

\* C10: reset() leaves the timer paused with no tick source, sets timeLeft
\* to sixty times the configured duration of the mode in force, and leaves
\* the mode, the counters and the settings as they were.
C10_ResetToCurrentMode ==
    [][lastOp' = "reset"
         => /\ ~isRunning'
            /\ CountdownTimers' = {}
            /\ timeLeft' = JsMul(ConfiguredDuration(currentMode, settings), 60)
            /\ UNCHANGED <<currentMode, sessionsCompleted, totalFocusTime, settings>>]_vars

\* C10 witness: reset during a short break whose duration differs from the
\* work duration, after the countdown had run
C10_Witness ==
    /\ lastOp = "reset"
    /\ currentMode = "short-break"
    /\ settings.breakDuration # settings.workDuration
    /\ timeLeft = 60 * settings.breakDuration
    /\ tickCount > 0

\* C11: pause() on a timer that is not running leaves timeLeft, isRunning,
\* currentMode, sessionsCompleted, totalFocusTime and the set of live
\* intervals as they were; on a running timer it clears the countdown
\* interval and sets isRunning to false, timeLeft and currentMode unchanged.
C11_PauseIdempotent ==
    [][lastOp' = "pause"
         => /\ ~isRunning'
            /\ CountdownTimers' = {}
            /\ UNCHANGED <<timeLeft, currentMode, sessionsCompleted, totalFocusTime>>
            /\ ~isRunning => UNCHANGED timers
            /\ timers' = timers \ CountdownTimers]_vars

\* C11 witness: pause() on a timer that was never started (Timer.interval
\* still null), with the quote interval of the open fullscreen surface live
C11_Witness ==
    /\ lastOp = "pause"
    /\ interval = 0
    /\ ~isRunning
    /\ \E t \in timers : t.kind = "quote" /\ t.id = quoteInterval

\* the values setCustomTime can be called with: parseInt of a prompt answer
\* or of a preset's data-duration
CustomMinutes == {parseInt(a) : a \in (PromptAnswers \cup PresetDurations) \ {Cancelled}}

\* C12: the time prompt and the presets do nothing while the timer runs;
\* on a paused timer setCustomTime(minutes) sets timeLeft to minutes * 60,
\* and in both cases currentMode, the settings and the store are unchanged.
C12_CustomTimeOnlyWhenPaused ==
    [][lastOp' \in {"editTime", "preset"}
         => /\ UNCHANGED <<currentMode, settings, localStorage, isRunning,
                           sessionsCompleted, totalFocusTime, timers>>
            /\ isRunning => UNCHANGED timeLeft
            /\ ~isRunning =>
                 timeLeft' \in {timeLeft} \cup {JsMul(m, 60) : m \in CustomMinutes}
            /\ (~isRunning /\ lastOp' = "preset") =>
                 timeLeft' \in {JsMul(parseInt(d), 60) : d \in PresetDurations}]_vars

\* C12 witness: a preset clicked during a break set a time that is not the
\* break's configured duration
C12_Witness ==
    /\ lastOp = "preset"
    /\ ~isRunning
    /\ currentMode # "work"
    /\ timeLeft \in {JsMul(parseInt(d), 60) : d \in PresetDurations}
    /\ timeLeft # JsMul(ConfiguredDuration(currentMode, settings), 60)

\* C13: the progress percentage of both views lies in [0, 100]: timeLeft is
\* at least 0 and at most the configured duration of the current mode, in
\* seconds.
C13_ProgressInRange ==
    LET totalTime == JsMul(ConfiguredDuration(currentMode, settings), 60)
    IN  /\ PercentageInRange(timeLeft, totalTime)
        /\ JsLe(0, timeLeft)
        /\ JsLe(timeLeft, totalTime)

\* the Timer operations that change what is displayed
TimerOps == {"tick", "reset", "editTime", "preset", "saveSettings", "start", "pause"}

\* C14: while the fullscreen surface is open, after every Timer operation
\* the fullscreen time and label equal the primary ones, and both are the
\* MM:SS text of timeLeft and the label of currentMode.
C14_SurfacesAgree ==
    (isOpen /\ lastOp \in TimerOps)
      => /\ dom.timerTime = TimeString(timeLeft)
         /\ dom.timerLabel = ModeLabel(currentMode)
         /\ fsDom.time = dom.timerTime
         /\ fsDom.label = dom.timerLabel

\* the operations that set isRunning
RunningOps == {"start", "pause", "reset", "saveSettings", "fsStart", "fsPause"}

\* C15: after every operation that sets isRunning, and after a completion,
\* the start control is disabled iff the timer runs and the pause control
\* iff it does not, on the primary surface and, while it is open, on the
\* fullscreen surface.
C15_ControlsFollowRunning ==
    (lastOp \in RunningOps \/ Completed)
      => /\ dom.startDisabled = isRunning
         /\ dom.pauseDisabled = ~isRunning
         /\ isOpen => /\ fsDom.startDisabled = isRunning
                      /\ fsDom.pauseDisabled = ~isRunning

QuoteTimers == {t \in timers : t.kind = "quote"}

\* C16: when open() has returned, the fullscreen time is the primary MM:SS
\* text, the threshold classes are those of timeLeft (critical-time below
\* 60 seconds), the controls reflect isRunning, and the quote interval has
\* been started.
C16_OpenDerivesPresentation ==
    lastOp = "open"
      => /\ isOpen
         /\ fsDom.time = dom.timerTime
         /\ fsDom.time = TimeString(timeLeft)
         /\ fsDom.ringClasses = BandClasses(timeLeft)
         /\ fsDom.fillClasses = BandClasses(timeLeft)
         /\ fsDom.startDisabled = isRunning
         /\ fsDom.pauseDisabled = ~isRunning
         /\ \E t \in QuoteTimers : t.id = quoteInterval

\* C17: at most one quote interval is live, one is live exactly when isOpen
\* is true, and none is live after close().
C17_OneQuoteSource ==
    /\ Cardinality(QuoteTimers) <= 1
    /\ isOpen <=> QuoteTimers # {}
    /\ lastOp = "close" => QuoteTimers = {}

\* C18: close() on a surface that is already closed leaves isOpen, the
\* quote interval handle, the live intervals and the Timer's state as they
\* were.
C18_CloseIdempotent ==
    [][(lastOp' = "close" /\ ~isOpen)
         => UNCHANGED <<isOpen, quoteInterval, timers, timeLeft, isRunning,
                        interval, currentMode, sessionsCompleted,
                        totalFocusTime, settings>>]_vars

\* C18 witness: close() on a surface that was never opened (nothing was
\* ever written to the fullscreen time), while the countdown runs
C18_Witness ==
    /\ lastOp = "close"
    /\ ~isOpen
    /\ env.fullscreenTimeElDefined
    /\ fsDom.time = ""
    /\ isRunning
    /\ CountdownTimers # {}

\* the threshold classes `classes` are those the claim gives a time of t
\* seconds
BandOf(classes, t) ==
    /\ "low-time" \in classes <=> (JsGe(t, 60) /\ JsLt(t, 300))
    /\ "critical-time" \in classes <=> (~IsNaN(t) /\ t < 60)
    /\ ~({"low-time", "critical-time"} \subseteq classes)

\* C19: after every update an indicator carries low-time iff
\* 60 <= timeLeft < 300 and critical-time iff timeLeft < 60, never both,
\* and while the fullscreen surface is open its indicators carry the same
\* classes as the primary ones.
C19_BandFollowsTimeLeft ==
    /\ lastOp \in {"tick", "reset", "saveSettings"}
         => BandOf(dom.ringClasses, timeLeft) /\ BandOf(dom.fillClasses, timeLeft)
    /\ lastOp \in {"fsStart", "fsPause"}
         => BandOf(fsDom.ringClasses, timeLeft) /\ BandOf(fsDom.fillClasses, timeLeft)
    /\ isOpen => /\ fsDom.ringClasses = dom.ringClasses
                 /\ fsDom.fillClasses = dom.fillClasses

\* C20: the pulsing critical marker is on a surface only if timeLeft is
\* below 60 seconds and the timer is running.
C20_CriticalOnlyWhileRunning ==
    /\ dom.critical => (JsLt(timeLeft, 60) /\ isRunning)
    /\ fsDom.critical => (JsLt(timeLeft, 60) /\ isRunning)
-----------------------------------------------------------------------------
(* C21 *)

\* the Timer's state and what it has stored, in a page state
TimerState(s) ==
    <<s.timeLeft, s.isRunning, s.currentMode, s.sessionsCompleted,
      s.totalFocusTime, s.settings, s.localStorage>>

\* C21: the FullscreenTimer changes the Timer only through Timer.start and
\* Timer.pause: a step of open(), of close() or of the quote interval keeps
\* timeLeft, isRunning, the countdown interval, currentMode, both counters,
\* the settings and the store; the fullscreen start and pause buttons keep
\* all of these but isRunning and the countdown interval; and
\* syncFromMainTimer, updateProgress and updateFromMainTimer, called in any
\* state of the page, keep them all
C21_ViewLeavesTimerState ==
    [][/\ lastOp' \in {"open", "close", "quote"} =>
            /\ TimerState(Here)' = TimerState(Here)
            /\ interval' = interval
            /\ CountdownTimers' = CountdownTimers
       /\ lastOp' \in {"fsStart", "fsPause"} =>
            UNCHANGED <<timeLeft, currentMode, sessionsCompleted, totalFocusTime,
                        settings, localStorage>>
       /\ TimerState(syncFromMainTimer(Here)) = TimerState(Here)
       /\ TimerState(fsUpdateProgress(Here)) = TimerState(Here)
       /\ TimerState(updateFromMainTimer(Here)) = TimerState(Here)]_vars

\* the overlay is opened over a running countdown
C21_Witness == lastOp = "open" /\ isRunning /\ isOpen /\ ~out.threw
-----------------------------------------------------------------------------
(* C22 *)

\* the stored texts of the four settings
StoredSettings(store) == [k \in SettingsKeys \cap DOMAIN store |-> store[k]]

\* C22: only saveSettings changes the four settings, in memory or in the
\* store: start, pause, reset, a tick with or without complete(),
\* setCustomTime, a style or intensity change and the overlay's open and
\* close leave them as they were; and after a saveSettings of four positive
\* integers whose writes the store took, each setting is the number typed,
\* reads back from the store as the value in memory, the timer is paused
\* with no tick source, and timeLeft is sixty times the new duration of the
\* mode in force.
C22_SettingsOnlyBySave ==
    [][/\ lastOp' # "saveSettings" =>
            /\ settings' = settings
            /\ StoredSettings(localStorage') = StoredSettings(localStorage)
       /\ (lastOp' = "saveSettings" /\ ~out'.writeErrors) =>
            /\ \A k \in SettingsKeys :
                  /\ settings'[k] = parseInt(form'[k])
                  /\ Persisted(localStorage', k) = settings'[k]
            /\ ~isRunning'
            /\ CountdownTimers' = {}
            /\ currentMode' = currentMode
            /\ timeLeft' = JsMul(ConfiguredDuration(currentMode, settings'), 60)]_vars

\* C22 witness: settings saved during a break, after the style was changed;
\* the break's duration is not the one loaded at start-up
C22_Witness ==
    /\ lastOp = "saveSettings"
    /\ currentMode = "long-break"
    /\ settings.longBreakDuration = 2
    /\ timeLeft = 120
    /\ visualSettings.style = JString(Linear)
-----------------------------------------------------------------------------
(* C23 *)

\* C23: a notification is raised only by complete() and only while
\* Notification.permission reads 'granted'; then its text is 'Take a
\* break!' when the countdown that completed was a work session and 'Time
\* to focus!' when it was a short or a long break.
C23_NotificationByModeExited ==
    [][/\ (out'.notification # "") <=>
              (out'.sound /\ lastOp' = "tick" /\ out'.permissionSeen = "granted")
       /\ out'.notification # "" =>
              out'.notification = IF currentMode = "work" THEN "Take a break!"
                                                         ELSE "Time to focus!"]_vars

\* C23 witness: a break completed with permission granted
C23_Witness ==
    /\ Completed
    /\ currentMode = "work"
    /\ out.permissionSeen = "granted"
    /\ out.notification = "Time to focus!"
-----------------------------------------------------------------------------
(* C24 *)

\* the page state a tick leaves when the browser answers play() with `playback`
TickedWith(playback) == tick([Here EXCEPT !.env.playback = playback])

\* C24: a refused playback does not hold up complete(): whether play()
\* succeeds or its promise is rejected, the completing tick leaves the timer
\* paused with no tick source, counts a work session, switches the mode by
\* the transition rule and sets timeLeft to the new mode's full time; the
\* page after a refused playback differs from the page after a successful
\* one in the logged message only.
C24_SoundNeverBlocks ==
    [][/\ (out'.sound /\ lastOp' = "tick") =>
            /\ ~isRunning'
            /\ CountdownTimers' = {}
            /\ sessionsCompleted' =
                  IF currentMode = "work" THEN sessionsCompleted + 1 ELSE sessionsCompleted
            /\ totalFocusTime' =
                  IF currentMode = "work" THEN JsAdd(totalFocusTime, settings.workDuration)
                                          ELSE totalFocusTime
            /\ currentMode' =
                  IF currentMode = "work"
                  THEN IF JsRem(sessionsCompleted', settings.sessionsBeforeLong) = 0
                       THEN "long-break" ELSE "short-break"
                  ELSE "work"
            /\ timeLeft' = JsMul(ConfiguredDuration(currentMode', settings), 60)
       /\ TickedWith("rejected") =
              [TickedWith("plays") EXCEPT !.env.playback = "rejected",
                                          !.out.playbackLogged = TickedWith("plays").out.sound]]_vars

\* C24 witness: a work session completed while the browser refused the sound
C24_Witness ==
    /\ Completed
    /\ out.playbackLogged
    /\ currentMode = "long-break"
    /\ sessionsCompleted = 2
-----------------------------------------------------------------------------
(* C25 *)

\* C25: get(key, defaultValue) returns defaultValue when nothing is stored
\* under the key or when the stored text does not parse, and otherwise the
\* value of the last set(key, value) the store took: 0, false, the empty
\* string, null and the empty list come back as they were written.
C25_GetReturnsWrittenOrDefault ==
    lastOp = "get" =>
        got.value = IF got.key \in DOMAIN written /\ written[got.key].by = "set"
                    THEN written[got.key].value
                    ELSE got.defaultValue

\* C25 witness: 0 was written and read back with another default
C25_Witness ==
    /\ lastOp = "get"
    /\ got.key \in DOMAIN written
    /\ written[got.key].by = "set"
    /\ got.value = JNumber(0)
    /\ got.defaultValue = JNumber(DefaultWorkDuration)
-----------------------------------------------------------------------------
(* C26 *)

\* a page state without the store and without the log of refused writes
InMemory(s) ==
    [s EXCEPT !.localStorage = EmptyStore, !.out.writeErrors = FALSE,
              !.env.writable = TRUE]

\* C26: a write the store refuses is caught: the handler ends without an
\* exception, every text stored before is still there, and the page is in
\* the state the same handler leaves when the store takes the write: for
\* the completing tick, for saveSettings and for the two dropdowns.
C26_FailedWriteIgnored ==
    /\ [][out'.writeErrors => (localStorage' = localStorage /\ ~out'.threw)]_vars
    /\ [](/\ (CountdownTimers # {}) =>
                InMemory(tick(State(FALSE, "default")))
                    = InMemory(tick(State(TRUE, "default")))
          /\ \A f \in ValidForms :
                InMemory(saveSettings(State(FALSE, "default"), f))
                    = InMemory(saveSettings(State(TRUE, "default"), f))
          /\ \A v \in {Circular, Linear} :
                InMemory(styleChange(State(FALSE, "default"), v))
                    = InMemory(styleChange(State(TRUE, "default"), v))
          /\ InMemory(intensityChange(State(FALSE, "default"), Subtle))
                = InMemory(intensityChange(State(TRUE, "default"), Subtle)))

\* C26 witness: a work session completed on a store that refused the two
\* writes, after a style change whose write it took
C26_Witness ==
    /\ Completed
    /\ out.writeErrors
    /\ sessionsCompleted = 2
    /\ Persisted(localStorage, "sessionsCompleted") = 1
    /\ "timerStyle" \in DOMAIN localStorage
-----------------------------------------------------------------------------
(* C27 *)

\* C27: while the overlay is open its display carries the class 'running'
\* exactly when the Timer is running.
C27_RunningMarkerAgrees == isOpen => (fsDom.running <=> isRunning)
-----------------------------------------------------------------------------
(* C28 *)

\* the note objects of the list
ListedNotes == {notes[i] : i \in DOMAIN notes}

\* the note objects the stored value was copied from
StoredFrom == {storedNotes[i].from : i \in DOMAIN storedNotes}

\* C28: closeEditor() right after createNote(), nothing typed, removes the
\* new note from the list and leaves no copy of it in the stored value.
C28_EmptyNoteDeletedOnClose ==
    [][(lastOp = "createNote" /\ lastOp' = "closeEditor")
         => /\ currentNote \notin ListedNotes'
            /\ currentNote \notin StoredFrom']_vars
-----------------------------------------------------------------------------
(* C29 *)

\* the note objects that were in the list and have left it
Removed == (1..Len(noteObjs)) \ ListedNotes

\* C29: a deleteCurrentNote() the user confirmed takes the current note out
\* of the list and out of the stored value, and a note that has left the
\* list never comes back, in the list or in the stored value, whatever
\* follows: a pending auto-save, closeEditor, another note opened or created.
C29_DeleteIsPermanent ==
    /\ [][(lastOp' = "deleteNote" /\ out'.confirmed /\ currentNote # 0)
             => /\ currentNote \notin ListedNotes'
                /\ currentNote \notin StoredFrom'
                /\ currentNote' = 0]_vars
    /\ [][\A r \in Removed : r \notin ListedNotes']_vars
    /\ [](Removed \cap StoredFrom = {})

\* C29 witness: an auto-save fired on another note after a note was deleted
C29_Witness ==
    /\ lastOp = "autoSave"
    /\ Removed # {}
    /\ currentNote \in ListedNotes

-----------------------------------------------------------------------------
(* C30 *)

AutoSaveTimeouts == {t \in timers : t.kind = "autosave"}

\* C30: at most one auto-save timeout is pending; the fields of the editor
\* are those of the current note whenever there is one; and an auto-save
\* that fires changes no note but the current one, to which it gives the
\* title and the content the editor shows: with the editor closed it
\* changes no note.
C30_OneAutoSaveOwnNoteOnly ==
    /\ [](Cardinality(AutoSaveTimeouts) <= 1)
    /\ [](currentNote # 0 => notesDom.shows = currentNote)
    /\ [][lastOp' = "autoSave"
             => /\ notes' = notes
                /\ Len(noteObjs') = Len(noteObjs)
                /\ \A r \in 1..Len(noteObjs) :
                      r # currentNote => noteObjs'[r] = noteObjs[r]
                /\ currentNote # 0 =>
                      /\ noteObjs'[currentNote].content = notesDom.content
                      /\ noteObjs'[currentNote].title =
                            IF Trim(notesDom.title) = <<>> THEN Untitled
                            ELSE Trim(notesDom.title)]_vars

\* C30 witness: the auto-save fired on a note opened after the typing that
\* scheduled it: the other note keeps the title typed into it
C30_Witness ==
    /\ lastOp = "autoSave"
    /\ currentNote # 0
    /\ noteObjs[currentNote].title = Untitled
    /\ \E r \in ListedNotes : r # currentNote /\ noteObjs[r].title = <<"a">>
-----------------------------------------------------------------------------
(* C31 *)

\* C31: no two tasks of the list have the same id, whenever the tasks were
\* added, two of them within one millisecond included; so a click on a
\* task's delete button removes that task and no other, a click on a task
\* flips the completed flag of that task and of no other, and after each
\* addTask, toggleTask and deleteTask the stored list is the list in memory.
C31_TaskIdsUnique ==
    /\ [](\A i, j \in DOMAIN tasks : i # j => tasks[i].id # tasks[j].id)
    /\ [][lastOp' = "deleteTask" =>
             tasks' = [k \in 1..(Len(tasks) - 1) |->
                          IF k < out'.clicked THEN tasks[k] ELSE tasks[k + 1]]]_vars
    /\ [][lastOp' = "toggleTask" =>
             tasks' = [tasks EXCEPT ![out'.clicked].completed = ~@]]_vars
    /\ [](lastOp \in {"addTask", "toggleTask", "deleteTask"} => storedTasks = tasks)

====
